---- MODULE Spec2Model ----
(***************************************************************************)
(* Model of the code-block extraction and change-application pipeline of   *)
(* src/ai_assistant/cli/commands.py (CodeCommands) and of the slash        *)
(* command dispatcher of src/ai_assistant/cli/interactive/                 *)
(* command_handler.py (CommandHandler).                                    *)
(* The response stream of generate_code and the concurrent reads of        *)
(* _prepare_request are modelled as well.                                  *)
(*                                                                         *)
(* Text is a sequence of characters.  The three-backtick fence marker is   *)
(* one character of the alphabet (FENCE); every other character is a       *)
(* one-character string.                                                   *)
(***************************************************************************)
EXTENDS Integers, Sequences, FiniteSets, TLC

VARIABLES
    segs,          \* the AI response as written: a sequence of segments
    content,       \* the response text given to _display_and_process_response
    matches,       \* result of pattern.findall(content)
    code_blocks,   \* the ordered dict built by _extract_code_blocks
    pc,            \* position of the running call
    show_diff,     \* argument of _display_and_process_response
    apply_changes, \* argument of _display_and_process_response (--apply)
    idx,           \* position of the running for loop in code_blocks
    disk,          \* the files of the working tree: path -> content
    is_repo,       \* whether the working directory is a Git repository
    events,        \* what was done so far: prompts, prints, file and Git calls
    command_str,   \* the argument of CommandHandler.handle
    session,       \* the interactive session the handler works on
    hout,          \* what handle printed for the current command
    hcalls,        \* the actions and stubs handle invoked for the current command
    hstatus,       \* "idle", "ready", "returned" or "raised"
    files,         \* the argument of _prepare_request: the context files
    unreadable,    \* the files whose read fails
    done,          \* the reads that completed, in completion order
    results,       \* what asyncio.gather returned
    file_contents, \* the ordered dict built by _prepare_request
    warnings,      \* the files _prepare_request printed a warning for
    git_context_str, \* the Git context of the request
    pstatus        \* "idle", "reading", "git", "prepared" or "raised"

vars == <<segs, content, matches, code_blocks, pc,
          show_diff, apply_changes, idx, disk, is_repo, events,
          command_str, session, hout, hcalls, hstatus,
          files, unreadable, done, results, file_contents, warnings,
          git_context_str, pstatus>>

extractVars == <<segs, content, matches, code_blocks>>
pipeVars == <<show_diff, apply_changes, idx, disk, is_repo, events>>
handlerVars == <<command_str, session, hout, hcalls, hstatus>>
prepVars == <<files, unreadable, done, results, file_contents, warnings,
              git_context_str, pstatus>>

(***************************************************************************)
(* Characters                                                              *)
(***************************************************************************)
\* the fence marker (three backticks)
FENCE == "FENCE"
NL    == "\n"
SP    == " "
COLON == ":"
DOT   == "."
SLASH == "/"
BSLASH == "\\"

\* the characters matched by \w that occur in the modelled texts
WordChars == {"a", "b", "p", "y", "t", "x", "z", "s"}
\* the characters removed by str.strip() that occur in the modelled texts
Whitespace == {SP, NL}

(***************************************************************************)
(* Bounds                                                                  *)
(***************************************************************************)
MaxSegs == 3
MaxFiles == 3
MaxArgs == 2
MaxChunk == 4
MaxContext == 3

(***************************************************************************)
(* The regular expression of _extract_code_blocks, with re.DOTALL:         *)
(*     FENCE (?:\w+:)? (.+?) \n (.*?) \n FENCE                             *)
(***************************************************************************)
NoMatch == [ok |-> FALSE, start |-> 0, path |-> <<>>, code |-> <<>>, end |-> 0]

\* last index of the maximal run of \w characters that starts at i (i-1 if none)
RECURSIVE WordRunEnd(_, _)
WordRunEnd(s, i) ==
    IF i <= Len(s) /\ s[i] \in WordChars THEN WordRunEnd(s, i + 1) ELSE i - 1

\* least q >= from with s[q] = "\n", or 0
RECURSIVE FirstNL(_, _)
FirstNL(s, from) ==
    IF from > Len(s) THEN 0
    ELSE IF s[from] = NL THEN from
    ELSE FirstNL(s, from + 1)

\* least r >= from with s[r] = "\n" and s[r+1] = FENCE, or 0
RECURSIVE FirstClose(_, _)
FirstClose(s, from) ==
    IF from + 1 > Len(s) THEN 0
    ELSE IF s[from] = NL /\ s[from + 1] = FENCE THEN from
    ELSE FirstClose(s, from + 1)

\* (.+?)\n(.*?)\nFENCE with the first group starting at p, for a match
\* that started at i.  Both groups are lazy and the dot matches the newline too:
\* group 1 takes one character at least, whatever it is, and then runs to
\* the first newline; group 2 runs to the first newline followed by a fence.
TailMatch(s, i, p) ==
    IF p > Len(s) THEN NoMatch
    ELSE LET q == FirstNL(s, p + 1) IN
         IF q = 0 THEN NoMatch
         ELSE LET r == FirstClose(s, q + 1) IN
              IF r = 0 THEN NoMatch
              ELSE [ok |-> TRUE, start |-> i,
                    path |-> SubSeq(s, p, q - 1),
                    code |-> SubSeq(s, q + 1, r - 1),
                    end |-> r + 1]

\* the optional group (?:\w+:)? is greedy: it is tried first, and given up
\* only when the rest of the pattern cannot match after it
MatchAt(s, i) ==
    IF i > Len(s) \/ s[i] # FENCE THEN NoMatch
    ELSE LET j == WordRunEnd(s, i + 1)
             withLang == IF j >= i + 1 /\ j + 1 <= Len(s) /\ s[j + 1] = COLON
                         THEN TailMatch(s, i, j + 2)
                         ELSE NoMatch
         IN IF withLang.ok THEN withLang ELSE TailMatch(s, i, i + 1)

\* pattern.findall: leftmost matches, non-overlapping, scanning from pos
RECURSIVE FindAll(_, _)
FindAll(s, pos) ==
    IF pos > Len(s) THEN <<>>
    ELSE LET m == MatchAt(s, pos) IN
         IF m.ok THEN <<m>> \o FindAll(s, m.end + 1)
         ELSE FindAll(s, pos + 1)

(***************************************************************************)
(* str.strip(), the path test and the dict                                 *)
(***************************************************************************)
RECURSIVE LStrip(_)
LStrip(s) ==
    IF s # <<>> /\ Head(s) \in Whitespace THEN LStrip(Tail(s)) ELSE s

RECURSIVE RStrip(_)
RStrip(s) ==
    IF s # <<>> /\ s[Len(s)] \in Whitespace
    THEN RStrip(SubSeq(s, 1, Len(s) - 1)) ELSE s

Strip(s) == RStrip(LStrip(s))

Contains(s, c) == \E k \in 1..Len(s) : s[k] = c

\* '/' in file_path or '\\' in file_path or '.' in file_path
LooksLikePath(file_path) ==
    Contains(file_path, SLASH) \/ Contains(file_path, BSLASH)
        \/ Contains(file_path, DOT)

\* d[k] = v on an insertion-ordered dict: a key already present keeps its
\* position and takes the new value
DictSet(d, k, v) ==
    IF \E n \in 1..Len(d) : d[n].path = k
    THEN [n \in 1..Len(d) |->
             IF d[n].path = k THEN [path |-> k, code |-> v] ELSE d[n]]
    ELSE Append(d, [path |-> k, code |-> v])

\* the loop over the matches
RECURSIVE BuildBlocks(_, _)
BuildBlocks(ms, d) ==
    IF ms = <<>> THEN d
    ELSE LET file_path == Strip(Head(ms).path) IN
         BuildBlocks(Tail(ms),
                     IF LooksLikePath(file_path)
                     THEN DictSet(d, file_path, Strip(Head(ms).code))
                     ELSE d)

_extract_code_blocks(text) == BuildBlocks(FindAll(text, 1), <<>>)

(***************************************************************************)
(* Responses: narrative text and fences, written out as characters         *)
(***************************************************************************)
Hints == { <<>>,
           <<"p", "y">>,
           <<"a", DOT, "p">>,
           <<"b", DOT, "p">>,
           <<"p", "y", COLON, "a", DOT, "p">>,
           <<"s", SLASH, "b">> }

Bodies == { <<>>,
            << <<>> >>,
            << <<SP, "x">> >>,
            << <<"x", DOT, "y">>, <<"z">> >> }

Texts == { <<"t", SP, "t", NL>> }

\* hints that name a directory
DirectoryHints == { <<DOT>>, <<"s", SLASH>> }

\* hints that are Windows paths: relative or with the drive x:, alone or
\* after the language token
WindowsHints == { <<"s", BSLASH, "a", DOT, "p">>,
                  <<"x", COLON, BSLASH, "a", DOT, "p">>,
                  <<"p", "y", COLON, "s", BSLASH, "a", DOT, "p">>,
                  <<"p", "y", COLON, "x", COLON, BSLASH, "a", DOT, "p">> }

\* opening fences that are never closed
OpenHints == { <<"a", DOT, "p">> }

Segments ==
    [kind : {"text"}, hint : {<<>>}, lines : {<<>>}, text : Texts]
    \cup [kind : {"fence"}, hint : Hints, lines : Bodies, text : {<<>>}]
    \cup [kind : {"fence"}, hint : DirectoryHints \cup WindowsHints,
          lines : { << <<SP, "x">> >> }, text : {<<>>}]
    \cup [kind : {"open"}, hint : OpenHints,
          lines : { << <<SP, "x">> >> }, text : {<<>>}]

RECURSIVE JoinLines(_)
JoinLines(lines) ==
    IF lines = <<>> THEN <<>>
    ELSE Head(lines) \o <<NL>> \o JoinLines(Tail(lines))

\* a fence: the marker and the hint on a line, the body lines, the marker
\* on a line of its own; an open fence lacks the closing marker
SegText(g) ==
    IF g.kind = "text" THEN g.text
    ELSE IF g.kind = "open"
    THEN <<FENCE>> \o g.hint \o <<NL>> \o JoinLines(g.lines)
    ELSE <<FENCE>> \o g.hint \o <<NL>> \o JoinLines(g.lines) \o <<FENCE, NL>>

RECURSIVE Flatten(_)
Flatten(ss) ==
    IF ss = <<>> THEN <<>> ELSE SegText(Head(ss)) \o Flatten(Tail(ss))

Responses == UNION { [1..n -> Segments] : n \in 0..MaxSegs }

(***************************************************************************)
(* The working tree, the collaborators and the log                         *)
(***************************************************************************)
OldContent == <<"y">>

\* the working tree before the response is processed: a.p exists
InitDisk == [f \in { <<"a", DOT, "p">> } |-> OldContent]

\* file_service.write_file: returns, or fails with FileServiceError
WriteOutcomes == {"ok", "FileServiceError"}
\* file_service.read_file and the rendering of the diff: return or raise
ReadOutcomes == {"ok", "error"}
\* every call of GitUtils: returns, or raises
GitOutcomes == {"ok", "GitError"}
\* the answers to click.prompt("Enter file name")
FileNames == { <<"s", DOT, "t">>, <<"a", DOT, "p">> }

Event(ev, path, ok) == [ev |-> ev, path |-> path, ok |-> ok]
NoPath == <<>>

\* file_service.write_file(path, text) on the working tree
WriteFile(d, path, text) ==
    [f \in DOMAIN d \cup {path} |-> IF f = path THEN text ELSE d[f]]

PipelineIdle ==
    /\ show_diff = FALSE
    /\ apply_changes = FALSE
    /\ idx = 0
    /\ disk = InitDisk
    /\ is_repo = FALSE
    /\ events = <<>>

\* the session when the interactive loop starts
InitSession == [model |-> "default", current_files |-> {}, history |-> <<"hello">>]

\* no command is being handled
HandlerIdle ==
    /\ command_str = <<>>
    /\ session = InitSession
    /\ hout = <<>>
    /\ hcalls = <<>>
    /\ hstatus = "idle"

\* no request is being prepared
PrepareIdle ==
    /\ files = <<>>
    /\ unreadable = {}
    /\ done = <<>>
    /\ results = <<>>
    /\ file_contents = <<>>
    /\ warnings = <<>>
    /\ git_context_str = ""
    /\ pstatus = "idle"

(***************************************************************************)
(* _display_and_process_response(content, show_diff, apply_changes)        *)
(***************************************************************************)
\* the fences the responses of the pipeline are made of
PipelineSegments ==
    { [kind |-> "fence", hint |-> <<"a", DOT, "p">>, lines |-> << <<SP, "x">> >>, text |-> <<>>],
      [kind |-> "fence", hint |-> <<"s", SLASH, "b">>, lines |-> << <<>> >>, text |-> <<>>],
      [kind |-> "fence", hint |-> <<"b", DOT, "p">>,
       lines |-> << <<"x", DOT, "y">>, <<"z">> >>, text |-> <<>>],
      [kind |-> "fence", hint |-> <<"p", "y">>, lines |-> << <<SP, "x">> >>, text |-> <<>>] }

PipelineResponses == UNION { [1..n -> PipelineSegments] : n \in 0..MaxFiles }

\* generate_code after _prepare_request, line 54: nothing received yet
Init ==
    /\ segs \in PipelineResponses
    /\ content = <<>>
    /\ matches = <<>>
    /\ code_blocks = <<>>
    /\ pc = "stream"
    /\ show_diff \in BOOLEAN
    /\ apply_changes \in BOOLEAN
    /\ idx = 0
    /\ disk = InitDisk
    /\ is_repo \in BOOLEAN
    /\ events = <<>>
    /\ HandlerIdle
    /\ PrepareIdle

\* where the for loop of lines 199-203 goes at index i
LoopAt(i) ==
    IF i > Len(code_blocks) THEN "applied"
    ELSE IF show_diff THEN "diff" ELSE "write"

\* StreamChunk putting the chunk in front of what was received
StreamChunkPrepended(n) ==
    /\ pc = "stream"
    /\ idx + n <= Len(Flatten(segs))
    /\ content' = SubSeq(Flatten(segs), idx + 1, idx + n) \o content
    /\ idx' = idx + n
    /\ UNCHANGED <<segs, matches, code_blocks, pc>>
    /\ UNCHANGED <<show_diff, apply_changes, disk, is_repo, events>>
    /\ UNCHANGED <<handlerVars, prepVars>>

\* lines 63-64: the next chunk of the response, n characters long, arrives
\* (idx counts the characters received)
StreamChunk(n) ==
    /\ pc = "stream"
    /\ idx + n <= Len(Flatten(segs))
    /\ content' = content \o SubSeq(Flatten(segs), idx + 1, idx + n)
    /\ idx' = idx + n
    /\ UNCHANGED <<segs, matches, code_blocks, pc>>
    /\ UNCHANGED <<show_diff, apply_changes, disk, is_repo, events>>
    /\ UNCHANGED <<handlerVars, prepVars>>

\* lines 63-66: the stream is exhausted, the response goes to
\* _display_and_process_response
StreamEnd ==
    /\ pc = "stream"
    /\ idx = Len(Flatten(segs))
    /\ pc' = "start"
    /\ idx' = 0
    /\ UNCHANGED <<extractVars, show_diff, apply_changes, disk, is_repo, events>>
    /\ UNCHANGED <<handlerVars, prepVars>>

\* lines 63, 68-70: stream_generate raises, at any point of the stream
StreamFail ==
    /\ pc = "stream"
    /\ pc' = "raised"
    /\ events' = events \o << Event("stream_failed", NoPath, FALSE),
                              Event("raise", NoPath, FALSE) >>
    /\ UNCHANGED <<extractVars, show_diff, apply_changes, idx, disk, is_repo>>
    /\ UNCHANGED <<handlerVars, prepVars>>

\* lines 173-196 up to the first prompt: print the response, extract
Display ==
    /\ pc = "start"
    /\ matches' = FindAll(content, 1)
    /\ code_blocks' = _extract_code_blocks(content)
    /\ IF code_blocks' = <<>>
       THEN /\ pc' = "ask_save"
            /\ idx' = idx
            /\ events' = Append(events, Event("print_response", NoPath, TRUE))
       ELSE IF ~apply_changes
       THEN /\ pc' = "ask_apply"
            /\ idx' = idx
            /\ events' = Append(events, Event("print_response", NoPath, TRUE))
       ELSE /\ pc' = IF show_diff THEN "diff" ELSE "write"
            /\ idx' = 1
            /\ events' = events \o << Event("print_response", NoPath, TRUE),
                                      Event("print_auto_apply", NoPath, TRUE) >>
    /\ UNCHANGED <<segs, content, show_diff, apply_changes, disk, is_repo>>
    /\ UNCHANGED <<handlerVars, prepVars>>

\* ConfirmSave with the answer of line 182 ignored
ConfirmSaveWithoutElse(ans) ==
    /\ pc = "ask_save"
    /\ pc' = "ask_name"
    /\ events' = Append(events, Event("confirm_save", NoPath, ans))
    /\ UNCHANGED <<extractVars, show_diff, apply_changes, idx, disk, is_repo>>
    /\ UNCHANGED <<handlerVars, prepVars>>

\* lines 182-188: no block found, offer to save the whole response
ConfirmSave(ans) ==
    /\ pc = "ask_save"
    /\ IF ans
       THEN /\ pc' = "ask_name"
            /\ events' = Append(events, Event("confirm_save", NoPath, TRUE))
       ELSE /\ pc' = "done"
            /\ events' = events \o << Event("confirm_save", NoPath, FALSE),
                                      Event("print_no_changes", NoPath, TRUE) >>
    /\ UNCHANGED <<extractVars, show_diff, apply_changes, idx, disk, is_repo>>
    /\ UNCHANGED <<handlerVars, prepVars>>

\* lines 183-185: the write is not guarded, its failure leaves the call
SaveResponse(file_name, outcome) ==
    /\ pc = "ask_name"
    /\ IF outcome = "ok"
       THEN /\ disk' = WriteFile(disk, file_name, content)
            /\ events' = events \o << Event("save", file_name, TRUE),
                                      Event("print_saved", file_name, TRUE) >>
            /\ pc' = "done"
       ELSE /\ disk' = disk
            /\ events' = events \o << Event("save", file_name, FALSE),
                                      Event("raise", file_name, FALSE) >>
            /\ pc' = "raised"
    /\ UNCHANGED <<extractVars, show_diff, apply_changes, idx, is_repo>>
    /\ UNCHANGED <<handlerVars, prepVars>>

\* ConfirmApply with the early return of line 194 left out
ConfirmApplyWithoutReturn(ans) ==
    /\ pc = "ask_apply"
    /\ pc' = IF show_diff THEN "diff" ELSE "write"
    /\ idx' = 1
    /\ events' = IF ans
                 THEN Append(events, Event("confirm_apply", NoPath, TRUE))
                 ELSE events \o << Event("confirm_apply", NoPath, FALSE),
                                   Event("print_not_applied", NoPath, TRUE) >>
    /\ UNCHANGED <<extractVars, show_diff, apply_changes, disk, is_repo>>
    /\ UNCHANGED <<handlerVars, prepVars>>

\* lines 191-194: the single question about the whole batch
ConfirmApply(ans) ==
    /\ pc = "ask_apply"
    /\ IF ans
       THEN /\ pc' = IF show_diff THEN "diff" ELSE "write"
            /\ idx' = 1
            /\ events' = Append(events, Event("confirm_apply", NoPath, TRUE))
       ELSE /\ pc' = "done"
            /\ idx' = idx
            /\ events' = events \o << Event("confirm_apply", NoPath, FALSE),
                                      Event("print_not_applied", NoPath, TRUE) >>
    /\ UNCHANGED <<extractVars, show_diff, apply_changes, disk, is_repo>>
    /\ UNCHANGED <<handlerVars, prepVars>>

\* ShowFileDiff without the except clause of lines 267-268: a failed
\* preview leaves the loop
ShowFileDiffUncaught(outcome) ==
    /\ pc = "diff"
    /\ LET file_path == code_blocks[idx].path IN
       IF outcome = "ok"
       THEN /\ events' = Append(events,
                   IF file_path \in DOMAIN disk
                   THEN Event("diff", file_path, TRUE)
                   ELSE Event("diff_new_file", file_path, TRUE))
            /\ pc' = "write"
       ELSE /\ events' = events \o << Event("diff_failed", file_path, FALSE),
                                      Event("raise", NoPath, FALSE) >>
            /\ pc' = "raised"
    /\ UNCHANGED <<extractVars, show_diff, apply_changes, idx, disk, is_repo>>
    /\ UNCHANGED <<handlerVars, prepVars>>

\* lines 246-268: _show_file_diff of the block at idx; every failure is
\* caught and printed
ShowFileDiff(outcome) ==
    /\ pc = "diff"
    /\ LET file_path == code_blocks[idx].path IN
       events' = Append(events,
           IF file_path \in DOMAIN disk
           THEN IF outcome = "ok" THEN Event("diff", file_path, TRUE)
                ELSE Event("print_diff_error", file_path, FALSE)
           ELSE IF outcome = "ok" THEN Event("diff_new_file", file_path, TRUE)
                ELSE Event("print_diff_error", file_path, FALSE))
    /\ pc' = "write"
    /\ UNCHANGED <<extractVars, show_diff, apply_changes, idx, disk, is_repo>>
    /\ UNCHANGED <<handlerVars, prepVars>>

\* ApplyCodeChanges without the except clause of lines 275-276: the failure
\* of a write leaves the loop
ApplyCodeChangesUncaught(outcome) ==
    /\ pc = "write"
    /\ LET file_path == code_blocks[idx].path
           code == code_blocks[idx].code
       IN IF outcome = "ok"
          THEN /\ disk' = WriteFile(disk, file_path, code)
               /\ events' = events \o << Event("write", file_path, TRUE),
                                         Event("print_applied", file_path, TRUE) >>
               /\ idx' = idx + 1
               /\ pc' = LoopAt(idx + 1)
          ELSE /\ disk' = disk
               /\ events' = events \o << Event("write", file_path, FALSE),
                                         Event("raise", file_path, FALSE) >>
               /\ idx' = idx
               /\ pc' = "raised"
    /\ UNCHANGED <<extractVars, show_diff, apply_changes, is_repo>>
    /\ UNCHANGED <<handlerVars, prepVars>>

\* lines 270-276: _apply_code_changes of the block at idx, then the next
\* turn of the loop
ApplyCodeChanges(outcome) ==
    /\ pc = "write"
    /\ LET file_path == code_blocks[idx].path
           code == code_blocks[idx].code
       IN IF outcome = "ok"
          THEN /\ disk' = WriteFile(disk, file_path, code)
               /\ events' = events \o << Event("write", file_path, TRUE),
                                         Event("print_applied", file_path, TRUE) >>
          ELSE /\ disk' = disk
               /\ events' = events \o << Event("write", file_path, FALSE),
                                         Event("print_apply_error", file_path, FALSE) >>
    /\ idx' = idx + 1
    /\ pc' = LoopAt(idx + 1)
    /\ UNCHANGED <<extractVars, show_diff, apply_changes, is_repo>>
    /\ UNCHANGED <<handlerVars, prepVars>>

\* lines 204-209: the loop is over; is_git_repo
GitCheck(outcome) ==
    /\ pc = "applied"
    /\ IF outcome = "ok"
       THEN /\ events' = events \o << Event("print_changes_applied", NoPath, TRUE),
                                      Event("is_git_repo", NoPath, is_repo) >>
            /\ pc' = IF is_repo THEN "ask_commit" ELSE "ask_init"
       ELSE /\ events' = events \o << Event("print_changes_applied", NoPath, TRUE),
                                      Event("is_git_repo_failed", NoPath, FALSE),
                                      Event("raise", NoPath, FALSE) >>
            /\ pc' = "raised"
    /\ UNCHANGED <<extractVars, show_diff, apply_changes, idx, disk, is_repo>>
    /\ UNCHANGED <<handlerVars, prepVars>>

\* ConfirmInit with the return of line 215 left out
ConfirmInitWithoutReturn(ans, outcome) ==
    /\ pc = "ask_init"
    /\ IF ~ans
       THEN /\ events' = events \o << Event("confirm_init", NoPath, FALSE),
                                      Event("print_not_initialized", NoPath, TRUE) >>
            /\ pc' = "ask_commit"
            /\ is_repo' = is_repo
       ELSE IF outcome = "ok"
       THEN /\ events' = events \o << Event("confirm_init", NoPath, TRUE),
                                      Event("init", NoPath, TRUE) >>
            /\ pc' = "ask_commit"
            /\ is_repo' = TRUE
       ELSE /\ events' = events \o << Event("confirm_init", NoPath, TRUE),
                                      Event("init_failed", NoPath, FALSE),
                                      Event("raise", NoPath, FALSE) >>
            /\ pc' = "raised"
            /\ is_repo' = is_repo
    /\ UNCHANGED <<extractVars, show_diff, apply_changes, idx, disk>>
    /\ UNCHANGED <<handlerVars, prepVars>>

\* lines 210-215
ConfirmInit(ans, outcome) ==
    /\ pc = "ask_init"
    /\ IF ~ans
       THEN /\ events' = events \o << Event("confirm_init", NoPath, FALSE),
                                      Event("print_not_initialized", NoPath, TRUE) >>
            /\ pc' = "done"
            /\ is_repo' = is_repo
       ELSE IF outcome = "ok"
       THEN /\ events' = events \o << Event("confirm_init", NoPath, TRUE),
                                      Event("init", NoPath, TRUE) >>
            /\ pc' = "ask_commit"
            /\ is_repo' = TRUE
       ELSE /\ events' = events \o << Event("confirm_init", NoPath, TRUE),
                                      Event("init_failed", NoPath, FALSE),
                                      Event("raise", NoPath, FALSE) >>
            /\ pc' = "raised"
            /\ is_repo' = is_repo
    /\ UNCHANGED <<extractVars, show_diff, apply_changes, idx, disk>>
    /\ UNCHANGED <<handlerVars, prepVars>>

\* lines 217, 225-226
ConfirmCommit(ans) ==
    /\ pc = "ask_commit"
    /\ IF ans
       THEN /\ events' = Append(events, Event("confirm_commit", NoPath, TRUE))
            /\ pc' = "stage"
            /\ idx' = 1
       ELSE /\ events' = events \o << Event("confirm_commit", NoPath, FALSE),
                                      Event("print_not_pushed", NoPath, TRUE) >>
            /\ pc' = "done"
            /\ idx' = idx
    /\ UNCHANGED <<extractVars, show_diff, apply_changes, disk, is_repo>>
    /\ UNCHANGED <<handlerVars, prepVars>>

\* lines 218-219: git add of the key at idx
AddFile(outcome) ==
    /\ pc = "stage"
    /\ IF outcome = "ok"
       THEN /\ events' = Append(events, Event("stage", code_blocks[idx].path, TRUE))
            /\ idx' = idx + 1
            /\ pc' = IF idx + 1 > Len(code_blocks) THEN "commit" ELSE "stage"
       ELSE /\ events' = events \o << Event("stage_failed", code_blocks[idx].path, FALSE),
                                      Event("raise", NoPath, FALSE) >>
            /\ idx' = idx
            /\ pc' = "raised"
    /\ UNCHANGED <<extractVars, show_diff, apply_changes, disk, is_repo>>
    /\ UNCHANGED <<handlerVars, prepVars>>

\* lines 220-221
Commit(outcome) ==
    /\ pc = "commit"
    /\ IF outcome = "ok"
       THEN /\ events' = events \o << Event("prompt_commit_message", NoPath, TRUE),
                                      Event("commit", NoPath, TRUE) >>
            /\ pc' = "branch"
       ELSE /\ events' = events \o << Event("prompt_commit_message", NoPath, TRUE),
                                      Event("commit_failed", NoPath, FALSE),
                                      Event("raise", NoPath, FALSE) >>
            /\ pc' = "raised"
    /\ UNCHANGED <<extractVars, show_diff, apply_changes, idx, disk, is_repo>>
    /\ UNCHANGED <<handlerVars, prepVars>>

\* line 222
CurrentBranch(outcome) ==
    /\ pc = "branch"
    /\ IF outcome = "ok"
       THEN /\ events' = Append(events, Event("current_branch", NoPath, TRUE))
            /\ pc' = "push"
       ELSE /\ events' = events \o << Event("current_branch_failed", NoPath, FALSE),
                                      Event("raise", NoPath, FALSE) >>
            /\ pc' = "raised"
    /\ UNCHANGED <<extractVars, show_diff, apply_changes, idx, disk, is_repo>>
    /\ UNCHANGED <<handlerVars, prepVars>>

\* Push undoing the writes of the batch when the push fails
PushWithRollback(outcome) ==
    /\ pc = "push"
    /\ IF outcome = "ok"
       THEN /\ events' = events \o << Event("push", NoPath, TRUE),
                                      Event("print_pushed", NoPath, TRUE) >>
            /\ pc' = "done"
            /\ disk' = disk
       ELSE /\ events' = events \o << Event("push_failed", NoPath, FALSE),
                                      Event("raise", NoPath, FALSE) >>
            /\ disk' = InitDisk
            /\ pc' = "raised"
    /\ UNCHANGED <<extractVars, show_diff, apply_changes, idx, is_repo>>
    /\ UNCHANGED <<handlerVars, prepVars>>

\* lines 223-224
Push(outcome) ==
    /\ pc = "push"
    /\ IF outcome = "ok"
       THEN /\ events' = events \o << Event("push", NoPath, TRUE),
                                      Event("print_pushed", NoPath, TRUE) >>
            /\ pc' = "done"
            /\ disk' = disk
       ELSE /\ events' = events \o << Event("push_failed", NoPath, FALSE),
                                      Event("raise", NoPath, FALSE) >>
            /\ disk' = disk
            /\ pc' = "raised"
    /\ UNCHANGED <<extractVars, show_diff, apply_changes, idx, is_repo>>
    /\ UNCHANGED <<handlerVars, prepVars>>

Next ==
    \/ \E n \in 1..MaxChunk : StreamChunk(n)
    \/ StreamEnd
    \/ StreamFail
    \/ Display
    \/ \E ans \in BOOLEAN : ConfirmSave(ans)
    \/ \E file_name \in FileNames, outcome \in WriteOutcomes : SaveResponse(file_name, outcome)
    \/ \E ans \in BOOLEAN : ConfirmApply(ans)
    \/ \E outcome \in ReadOutcomes : ShowFileDiff(outcome)
    \/ \E outcome \in WriteOutcomes : ApplyCodeChanges(outcome)
    \/ \E outcome \in GitOutcomes : GitCheck(outcome)
    \/ \E ans \in BOOLEAN, outcome \in GitOutcomes : ConfirmInit(ans, outcome)
    \/ \E ans \in BOOLEAN : ConfirmCommit(ans)
    \/ \E outcome \in GitOutcomes : AddFile(outcome)
    \/ \E outcome \in GitOutcomes : Commit(outcome)
    \/ \E outcome \in GitOutcomes : CurrentBranch(outcome)
    \/ \E outcome \in GitOutcomes : Push(outcome)

Spec == Init /\ [][Next]_vars


(***************************************************************************)
(* Claims about _display_and_process_response                              *)
(***************************************************************************)
EventIdx(names) == {k \in 1..Len(events) : events[k].ev \in names}

Accepted == \E k \in EventIdx({"confirm_apply"}) : events[k].ok
Declined == \E k \in EventIdx({"confirm_apply"}) : ~events[k].ok

DiffEvents == {"diff", "diff_new_file", "print_diff_error"}
GitMutations == {"init", "stage", "commit", "push"}

\* the write attempts of the batch, in the order they were made
Writes == SelectSeq(events, LAMBDA e : e.ev = "write")
StagedPaths == {events[k].path : k \in EventIdx({"stage"})}
WrittenPaths == {events[k].path : k \in {j \in EventIdx({"write"}) : events[j].ok}}

\* every file of the ChangeSet had its diff shown before event k
AllDiffsBefore(k) ==
    \A n \in 1..Len(code_blocks) :
        \E j \in EventIdx(DiffEvents) : j < k /\ events[j].path = code_blocks[n].path

\* C1: with a non-empty ChangeSet no file is written unless the auto-apply
\* flag is set or the user said yes to the one question about the batch;
\* after a no, no file is written and no Git operation is performed.
C1_ConfirmationGate ==
    code_blocks # <<>> =>
        /\ (EventIdx({"write"}) # {} \/ disk # InitDisk) => (apply_changes \/ Accepted)
        /\ Declined => /\ EventIdx({"write"}) = {}
                       /\ disk = InitDisk
                       /\ EventIdx(GitMutations) = {}

\* the user said no to a batch that has a block with empty content
C1_Witness ==
    /\ pc = "done"
    /\ Declined
    /\ ~apply_changes
    /\ \E n \in 1..Len(code_blocks) : code_blocks[n].code = <<>>

\* C2: with diff display on and auto-apply off, the diff of every file of
\* the ChangeSet is shown before the yes/no decision is taken, and no file is
\* written before all diffs were shown.
C2_AllDiffsShownBeforeDecision ==
    (show_diff /\ ~apply_changes) =>
        /\ \A k \in EventIdx({"confirm_apply"}) : AllDiffsBefore(k)
        /\ \A k \in EventIdx({"write"}) : AllDiffsBefore(k)
        /\ \A k \in EventIdx({"confirm_apply"}) :
               \A j \in EventIdx(DiffEvents) : j < k

\* C3: once the user agreed to commit and push, the paths staged are exactly
\* the paths whose write succeeded: no path whose write failed is staged,
\* and when staging is over every written path is staged.
C3_StagedExactlyWritten ==
    /\ StagedPaths \subseteq WrittenPaths
    /\ pc \in {"commit", "branch", "push"} => StagedPaths = WrittenPaths

\* C4: an accepted batch is applied best-effort: whatever writes fail, a
\* write is attempted for every file in ChangeSet order, every file whose
\* write did not fail holds its new content, and every file is reported
\* either as applied or, when its write failed, as an error.
C4_BestEffortBatch ==
    (/\ code_blocks # <<>>
     /\ ~Declined
     /\ pc \notin {"start", "ask_apply", "diff", "write"})
    => /\ Len(Writes) = Len(code_blocks)
       /\ \A n \in 1..Len(code_blocks) :
              LET file_path == code_blocks[n].path IN
              /\ Writes[n].path = file_path
              /\ IF Writes[n].ok
                 THEN /\ file_path \in DOMAIN disk
                      /\ disk[file_path] = code_blocks[n].code
                      /\ \E k \in EventIdx({"print_applied"}) : events[k].path = file_path
                      /\ \A k \in EventIdx({"print_apply_error"}) : events[k].path # file_path
                 ELSE /\ \E k \in EventIdx({"print_apply_error"}) : events[k].path = file_path
                      /\ \A k \in EventIdx({"print_applied"}) : events[k].path # file_path

\* the first of three writes failed and the two after it succeeded
C4_Witness ==
    /\ pc = "applied"
    /\ Len(code_blocks) = 3
    /\ Len(Writes) = 3
    /\ ~Writes[1].ok /\ Writes[2].ok /\ Writes[3].ok
    /\ \A n \in 2..3 : disk[code_blocks[n].path] = code_blocks[n].code


GitFailures == {"is_git_repo_failed", "init_failed", "stage_failed",
                "commit_failed", "current_branch_failed", "push_failed"}

\* every file whose write succeeded holds the content of its block
WrittenFilesKept ==
    \A n \in 1..Len(Writes) :
        Writes[n].ok => /\ Writes[n].path \in DOMAIN disk
                        /\ disk[Writes[n].path] = code_blocks[n].code

\* C12: when a Git call fails after the batch was applied (repo check, init,
\* stage, commit, current branch or push), every file already written keeps
\* its new content and the failure is raised to the caller as an error.
C12_GitFailureKeepsWrites ==
    \A k \in EventIdx(GitFailures) :
        /\ WrittenFilesKept
        /\ Len(Writes) = Len(code_blocks)
        /\ pc = "raised"
        /\ k = Len(events) - 1
        /\ events[Len(events)].ev = "raise"

\* the push failed after two files were written
C12_Witness ==
    /\ pc = "raised"
    /\ EventIdx({"push_failed"}) # {}
    /\ Len(Writes) >= 2
    /\ Writes[1].ok /\ Writes[2].ok
    /\ disk # InitDisk

\* the for loop of lines 199-203 was entered and left
BatchLeft ==
    /\ code_blocks # <<>>
    /\ ~Declined
    /\ pc \notin {"stream", "start", "ask_apply", "diff", "write"}

\* C14: a diff preview that fails is reported for its file and does not stop
\* the batch: every file of the ChangeSet gets its preview (shown or
\* reported as failed) and its write; the preview changes no file.
C14_DiffFailureDoesNotAbort ==
    /\ [](( show_diff /\ BatchLeft ) =>
            /\ Len(Writes) = Len(code_blocks)
            /\ \A n \in 1..Len(code_blocks) :
                   /\ Writes[n].path = code_blocks[n].path
                   /\ Cardinality({k \in EventIdx(DiffEvents) :
                                      events[k].path = code_blocks[n].path}) = 1)
    /\ [][pc = "diff" => disk' = disk]_vars

\* the preview of the first of three files failed; the other two were
\* previewed and all three written
C14_Witness ==
    /\ pc = "applied"
    /\ show_diff
    /\ Len(code_blocks) = 3
    /\ \E k \in EventIdx({"print_diff_error"}) : events[k].path = code_blocks[1].path
    /\ \A n \in 2..3 : \E k \in EventIdx({"diff", "diff_new_file"}) :
           events[k].path = code_blocks[n].path
    /\ Len(Writes) = 3
    /\ \A n \in 1..3 : Writes[n].ok

\* C18: the steps come in pipeline order: no Git mutation before a write was
\* attempted for every file; every stage before the commit and the commit
\* before the push; stage, commit and push only after a yes to the commit
\* question; none of them after the user declined to initialise a repo.
C18_PipelineOrder ==
    /\ \A k \in EventIdx(GitMutations) :
           Cardinality({j \in EventIdx({"write"}) : j < k}) = Len(code_blocks)
    /\ \A k \in EventIdx({"stage"}) : \A c \in EventIdx({"commit"}) : k < c
    /\ \A c \in EventIdx({"commit"}) : \A q \in EventIdx({"push"}) : c < q
    /\ \A q \in EventIdx({"push"}) : EventIdx({"commit"}) # {}
    /\ \A k \in EventIdx({"stage", "commit", "push"}) :
           \E j \in EventIdx({"confirm_commit"}) : j < k /\ events[j].ok
    /\ (\E k \in EventIdx({"confirm_init"}) : ~events[k].ok)
           => EventIdx({"stage", "commit", "push"}) = {}

\* a batch of two files or more was written, the repo initialised, the
\* files staged, committed and pushed
C18_Witness ==
    /\ pc = "done"
    /\ Len(code_blocks) >= 2
    /\ EventIdx({"init"}) # {}
    /\ Cardinality(EventIdx({"stage"})) = Len(code_blocks)
    /\ EventIdx({"push"}) # {}

GitCalls == GitMutations \cup GitFailures
                \cup {"is_git_repo", "current_branch", "confirm_init", "confirm_commit"}

\* C20: when the extractor returns the empty map, at most one file is
\* written (the whole response, under the name the user enters) and only
\* after a yes to the save question, with or without the auto-apply flag;
\* no Git call is made on this path.
C20_EmptyMapSavesOnlyOnConfirm ==
    (code_blocks = <<>> /\ EventIdx({"print_response"}) # {}) =>
        /\ Cardinality(EventIdx({"save"})) <= 1
        /\ EventIdx({"write"}) = {}
        /\ \A k \in EventIdx({"save"}) :
               /\ \E j \in EventIdx({"confirm_save"}) : j < k /\ events[j].ok
               /\ \A j \in EventIdx({"confirm_save"}) : events[j].ok
               /\ disk = IF events[k].ok
                         THEN WriteFile(InitDisk, events[k].path, content)
                         ELSE InitDisk
        /\ EventIdx({"save"}) = {} => disk = InitDisk
        /\ EventIdx(GitCalls) = {}

\* the response without blocks was saved under --apply, after a yes
C20_Witness ==
    /\ pc = "done"
    /\ apply_changes
    /\ code_blocks = <<>>
    /\ \E k \in EventIdx({"save"}) : events[k].ok
    /\ disk # InitDisk

\* the calls of _display_and_process_response, which prints the response
\* and runs the extractor on it
ExtractorRuns == EventIdx({"print_response"})

\* C19: the extractor runs once per request and only after the last chunk:
\* its text is the concatenation of all chunks in arrival order; nothing is
\* extracted, asked or written while chunks arrive; when the stream fails,
\* nothing is extracted and nothing is written.
C19_ExtractAfterFullStream ==
    /\ Cardinality(ExtractorRuns) <= 1
    /\ pc = "stream" =>
           /\ content = SubSeq(Flatten(segs), 1, idx)
           /\ events = <<>> /\ matches = <<>> /\ code_blocks = <<>>
           /\ disk = InitDisk
    /\ pc \notin {"stream", "start"} =>
           (ExtractorRuns = {} <=> EventIdx({"stream_failed"}) # {})
    /\ ExtractorRuns # {} => content = Flatten(segs)
    /\ EventIdx({"stream_failed"}) # {} =>
           /\ pc = "raised"
           /\ Len(events) = 2
           /\ matches = <<>> /\ code_blocks = <<>>
           /\ disk = InitDisk

\* a response of two fences arrived whole, was extracted and applied
C19_Witness ==
    /\ pc = "applied"
    /\ Len(segs) >= 2
    /\ Len(code_blocks) = 2
    /\ content = Flatten(segs)
    /\ Cardinality(ExtractorRuns) = 1
    /\ \A n \in 1..2 : Writes[n].ok

(***************************************************************************)
(* CommandHandler.handle(command_str)                                      *)
(*                                                                         *)
(* A command string is a sequence of lexemes: the slash, blanks, and words *)
(* (a word is one string).                                                 *)
(***************************************************************************)
Vocabulary == {"file", "refresh", "clear", "files", "repo", "model",
               "save_conversation", "new", "save", "git_add", "git_commit",
               "git_push"}
RequiredArgCommands == {"file", "model", "save_conversation", "new", "save",
                        "git_add", "git_commit"}

\* the command words typed: the vocabulary, two words in capitals, two
\* words outside the vocabulary
CommandWords == Vocabulary \cup {"MODEL", "Git_Push", "xyz", "help"}
ArgWords == {"a.py", "gpt-5"}

\* str.lower() on the words typed
Lower(w) ==
    CASE w = "MODEL" -> "model"
      [] w = "Git_Push" -> "git_push"
      [] OTHER -> w

\* str.split(): the words between the blanks
Split(str) == SelectSeq(str, LAMBDA c : c # SP)

\* " ".join(args)
RECURSIVE Join(_)
Join(args) ==
    IF args = <<>> THEN <<>>
    ELSE IF Len(args) = 1 THEN args
    ELSE <<Head(args), SP>> \o Join(Tail(args))

\* the words of a line, one blank before each but the first
RECURSIVE Spaced(_)
Spaced(ws) ==
    IF ws = <<>> THEN <<>>
    ELSE IF Len(ws) = 1 THEN ws
    ELSE <<Head(ws), SP>> \o Spaced(Tail(ws))

ArgLists == UNION { [1..n -> ArgWords] : n \in 0..MaxArgs }

CommandStrings ==
    { <<"/">> \o lead \o Spaced(ws) :
        lead \in {<<>>, <<SP>>},
        ws \in {<<>>} \cup { <<c>> \o a : c \in CommandWords, a \in ArgLists } }

\* the outcome of an awaited action or stub: it returns, or it raises
ActionOutcomes == {"ok", "raise"}

\* the branch of the if/elif chain of lines 15-58 taken for cmd and args
BranchWithoutElse(cmd, args) ==
    CASE cmd = "file" -> IF args = <<>> THEN "missing_file_path" ELSE "file"
      [] cmd = "refresh" -> "refresh"
      [] cmd = "clear" -> "clear"
      [] cmd = "files" -> "files"
      [] cmd = "repo" -> "repo"
      [] cmd = "model" /\ args # <<>> -> "model"
      [] cmd = "save_conversation" /\ args # <<>> -> "save_conversation"
      [] cmd = "new" /\ args # <<>> -> "new"
      [] cmd = "save" /\ args # <<>> -> "save"
      [] cmd = "git_add" /\ args # <<>> -> "git_add"
      [] cmd = "git_commit" /\ args # <<>> -> "git_commit"
      [] cmd = "git_push" -> "git_push"
      [] OTHER -> "none"

\* the chain with the argument tests of git_add and git_commit left out
BranchWithoutArgTest(cmd, args) ==
    CASE cmd = "file" -> IF args = <<>> THEN "missing_file_path" ELSE "file"
      [] cmd = "refresh" -> "refresh"
      [] cmd = "clear" -> "clear"
      [] cmd = "files" -> "files"
      [] cmd = "repo" -> "repo"
      [] cmd = "model" /\ args # <<>> -> "model"
      [] cmd = "save_conversation" /\ args # <<>> -> "save_conversation"
      [] cmd = "new" /\ args # <<>> -> "new"
      [] cmd = "save" /\ args # <<>> -> "save"
      [] cmd = "git_add" -> "git_add"
      [] cmd = "git_commit" -> "git_commit"
      [] cmd = "git_push" -> "git_push"
      [] OTHER -> "unknown"

Branch(cmd, args) ==
    CASE cmd = "file" -> IF args = <<>> THEN "missing_file_path" ELSE "file"
      [] cmd = "refresh" -> "refresh"
      [] cmd = "clear" -> "clear"
      [] cmd = "files" -> "files"
      [] cmd = "repo" -> "repo"
      [] cmd = "model" /\ args # <<>> -> "model"
      [] cmd = "save_conversation" /\ args # <<>> -> "save_conversation"
      [] cmd = "new" /\ args # <<>> -> "new"
      [] cmd = "save" /\ args # <<>> -> "save"
      [] cmd = "git_add" /\ args # <<>> -> "git_add"
      [] cmd = "git_commit" /\ args # <<>> -> "git_commit"
      [] cmd = "git_push" -> "git_push"
      [] OTHER -> "unknown"

\* the branches that await or call an action or a stub, and what they pass
Callee(b) ==
    CASE b = "file" -> "actions.add_file_to_context"
      [] b = "refresh" -> "actions.refresh_repo_context"
      [] b = "clear" -> "actions.clear_history"
      [] b = "repo" -> "actions.show_repository_stats"
      [] b = "model" -> "actions.switch_model"
      [] b = "save_conversation" -> "actions.save_conversation"
      [] b = "new" -> "stubs.handle_new_file"
      [] b = "save" -> "stubs.handle_save_last_code"
      [] b = "git_add" -> "stubs.handle_git_add"
      [] b = "git_commit" -> "stubs.handle_git_commit"
      [] b = "git_push" -> "stubs.handle_git_push"
      [] OTHER -> "none"

CallArg(b, args) ==
    CASE b \in {"file", "model", "save_conversation", "new", "save"} -> <<args[1]>>
      [] b = "git_add" -> args
      [] b = "git_commit" -> Join(args)
      [] OTHER -> <<>>

\* what the actions do to the session
SessionAfter(b, args, sess) ==
    CASE b = "file" ->
             [sess EXCEPT !.current_files = sess.current_files \cup {args[1]}]
      [] b = "clear" -> [sess EXCEPT !.history = <<>>]
      [] b = "model" -> [sess EXCEPT !.model = args[1]]
      [] OTHER -> sess

\* what the branch prints before its call
PrintsBefore(b, cmd) ==
    CASE b = "missing_file_path" -> << [print |-> "error_missing_file_path", cmd |-> cmd] >>
      [] b = "refresh" -> << [print |-> "refreshing", cmd |-> cmd] >>
      [] b = "files" -> << [print |-> "list_files_in_context", cmd |-> cmd] >>
      [] b = "unknown" -> << [print |-> "error_unknown_command", cmd |-> cmd],
                             [print |-> "show_help", cmd |-> cmd] >>
      [] OTHER -> <<>>

\* the five stubs of stubs.py print what they would do
PrintsAfter(b, cmd) ==
    IF b \in {"new", "save", "git_add", "git_commit", "git_push"}
    THEN << [print |-> "action_stub", cmd |-> cmd] >>
    ELSE <<>>

InitHandle ==
    /\ command_str \in CommandStrings
    /\ session = InitSession
    /\ hout = <<>>
    /\ hcalls = <<>>
    /\ hstatus = "ready"
    /\ segs = <<>>
    /\ content = <<>>
    /\ matches = <<>>
    /\ code_blocks = <<>>
    /\ pc = "idle"
    /\ PipelineIdle
    /\ PrepareIdle

\* lines 8-63
Handle(outcome) ==
    /\ hstatus = "ready"
    /\ LET parts == Split(Tail(command_str)) IN
       IF parts = <<>>
       THEN \* parts[0] of line 11 raises IndexError, outside the try
            /\ hstatus' = "raised"
            /\ UNCHANGED <<session, hout, hcalls>>
       ELSE LET cmd == Lower(parts[1])
                args == Tail(parts)
                b == Branch(cmd, args)
            IN /\ hstatus' = "returned"
               /\ IF Callee(b) = "none"
                  THEN /\ hout' = PrintsBefore(b, cmd)
                       /\ UNCHANGED <<session, hcalls>>
                  ELSE IF outcome = "ok"
                  THEN /\ hcalls' = << [fn |-> Callee(b), arg |-> CallArg(b, args), ok |-> TRUE] >>
                       /\ session' = SessionAfter(b, args, session)
                       /\ hout' = PrintsBefore(b, cmd) \o PrintsAfter(b, cmd)
                  ELSE /\ hcalls' = << [fn |-> Callee(b), arg |-> CallArg(b, args), ok |-> FALSE] >>
                       /\ session' = session
                       /\ hout' = PrintsBefore(b, cmd)
                                    \o << [print |-> "error_executing_command", cmd |-> cmd],
                                          [print |-> "traceback", cmd |-> cmd] >>
    /\ UNCHANGED command_str
    /\ UNCHANGED <<extractVars, pc, pipeVars, prepVars>>

\* the interactive loop reads the next line
ReadCommand ==
    /\ hstatus = "returned"
    /\ command_str' \in CommandStrings
    /\ hout' = <<>>
    /\ hcalls' = <<>>
    /\ hstatus' = "ready"
    /\ UNCHANGED session
    /\ UNCHANGED <<extractVars, pc, pipeVars, prepVars>>

NextHandle ==
    \/ \E outcome \in ActionOutcomes : Handle(outcome)
    \/ ReadCommand

SpecHandle == InitHandle /\ [][NextHandle]_vars

(***************************************************************************)
(* Claims about CommandHandler.handle                                      *)
(***************************************************************************)
Parts == Split(Tail(command_str))
ErrorPrints == {"error_missing_file_path", "error_unknown_command",
                "error_executing_command"}

\* C5: a required-argument command given without its argument makes handle
\* print an error, invoke no action and no stub, leave the session as it
\* is, and return to its caller.
C5_MissingArgumentIsReportedNoOp ==
    [][ (/\ hstatus = "ready"
         /\ Len(Parts) = 1
         /\ Lower(Parts[1]) \in RequiredArgCommands)
        => (/\ hstatus' = "returned"
            /\ \E k \in 1..Len(hout') : hout'[k].print \in ErrorPrints
            /\ hcalls' = <<>>
            /\ session' = session) ]_vars

\* /git_add without argument was handled, after the model had been changed
C5_Witness ==
    /\ hstatus = "returned"
    /\ command_str = <<"/", "git_add">>
    /\ session.model = "gpt-5"
    /\ hcalls = <<>>
    /\ \E k \in 1..Len(hout) : hout[k].print \in ErrorPrints

\* C6: a command whose token is outside the vocabulary makes handle print
\* the help, invoke no action and no stub, leave the session as it is, and
\* return to its caller.
C6_UnknownCommandPrintsHelp ==
    [][ (/\ hstatus = "ready"
         /\ Parts # <<>>
         /\ Lower(Parts[1]) \notin Vocabulary)
        => (/\ hstatus' = "returned"
            /\ \E k \in 1..Len(hout') : hout'[k].print = "show_help"
            /\ hcalls' = <<>>
            /\ session' = session) ]_vars

\* /xyz with an argument was handled
C6_Witness ==
    /\ hstatus = "returned"
    /\ command_str = <<"/", "xyz", SP, "a.py">>
    /\ \E k \in 1..Len(hout) : hout[k].print = "show_help"
    /\ hcalls = <<>>


\* C17: handle returns to its caller without raising, for every command
\* string starting with a slash, the one without a command token included,
\* and whatever the invoked action or stub does.
C17_HandleNeverRaises == hstatus # "raised"

(***************************************************************************)
(* _extract_code_blocks called on a response                               *)
(***************************************************************************)
InitExtract ==
    /\ segs \in Responses
    /\ content = Flatten(segs)
    /\ matches = <<>>
    /\ code_blocks = <<>>
    /\ pc = "call"
    /\ PipelineIdle
    /\ HandlerIdle
    /\ PrepareIdle

Extract ==
    /\ pc = "call"
    /\ matches' = FindAll(content, 1)
    /\ code_blocks' = _extract_code_blocks(content)
    /\ pc' = "extracted"
    /\ UNCHANGED <<segs, content>>
    /\ UNCHANGED pipeVars
    /\ UNCHANGED <<handlerVars, prepVars>>

NextExtract == Extract

SpecExtract == InitExtract /\ [][NextExtract]_vars

(***************************************************************************)
(* What a response says, read off its segments                             *)
(***************************************************************************)
FenceIdx(ss) == {i \in 1..Len(ss) : ss[i].kind = "fence"}

\* index in the text of the opening marker of segment i
FenceStart(ss, i) == Len(Flatten(SubSeq(ss, 1, i - 1))) + 1

\* the language tokens of the modelled hints
Languages == { <<"p", "y">> }

\* the path token of a hint: what follows the optional language token and
\* colon, without the surrounding blanks
HintPath(h) ==
    LET j == WordRunEnd(h, 1) IN
    IF j >= 1 /\ j + 1 <= Len(h) /\ h[j + 1] = COLON /\ SubSeq(h, 1, j) \in Languages
    THEN Strip(SubSeq(h, j + 2, Len(h)))
    ELSE Strip(h)

\* the fences hinted by a path
PathFences(ss) ==
    {i \in FenceIdx(ss) : ss[i].hint # <<>> /\ LooksLikePath(HintPath(ss[i].hint))}

\* the fences hinted by a bare language name
BareFences(ss) ==
    {i \in FenceIdx(ss) :
        ss[i].hint # <<>> /\ \A k \in 1..Len(ss[i].hint) : ss[i].hint[k] \in WordChars}

\* the body of a fence as content of a CodeBlock (trimmed)
BodyContent(g) == Strip(JoinLines(g.lines))

Occurrences(ss, P) == {i \in PathFences(ss) : HintPath(ss[i].hint) = P}
FirstOcc(ss, P) == CHOOSE i \in Occurrences(ss, P) : \A k \in Occurrences(ss, P) : i <= k
LastOcc(ss, P) == CHOOSE i \in Occurrences(ss, P) : \A k \in Occurrences(ss, P) : i >= k

Keys(d) == {d[n].path : n \in 1..Len(d)}
KeyIndex(d, P) == CHOOSE n \in 1..Len(d) : d[n].path = P

\* fence i is in the result: a match that starts at its opening marker
\* passed the path test
Included(i) ==
    \E k \in 1..Len(matches) :
        /\ matches[k].start = FenceStart(segs, i)
        /\ LooksLikePath(Strip(matches[k].path))

(***************************************************************************)
(* Claims about _extract_code_blocks                                       *)
(***************************************************************************)
\* C7: when the same path is the hint of two or more fences of a response,
\* the result has exactly one entry for that path, with the content of the
\* last such fence, and placed relative to the other paths where its first
\* occurrence is.
C7_DuplicatePathLastWinsFirstPosition ==
    pc = "extracted" =>
        \A i \in PathFences(segs) :
            LET P == HintPath(segs[i].hint) IN
            Cardinality(Occurrences(segs, P)) >= 2 =>
                /\ Cardinality({n \in 1..Len(code_blocks) : code_blocks[n].path = P}) = 1
                /\ code_blocks[KeyIndex(code_blocks, P)].code
                       = BodyContent(segs[LastOcc(segs, P)])
                /\ \A j \in PathFences(segs) :
                       LET Q == HintPath(segs[j].hint) IN
                       (Q # P /\ Q \in Keys(code_blocks)) =>
                           ((KeyIndex(code_blocks, P) < KeyIndex(code_blocks, Q))
                               <=> (FirstOcc(segs, P) < FirstOcc(segs, Q)))

\* C8: a response of narrative text and N properly closed fences with
\* pairwise distinct path hints, bodies of any length (the empty body
\* included), yields exactly N entries, one per fence, keyed by the fence's
\* path with the fence's body as content, in the order of the fences.
C8_OneEntryPerDistinctPathFence ==
    (/\ pc = "extracted"
     /\ \A i \in 1..Len(segs) : segs[i].kind \in {"text", "fence"}
     /\ FenceIdx(segs) = PathFences(segs)
     /\ \A i, j \in PathFences(segs) :
            i # j => HintPath(segs[i].hint) # HintPath(segs[j].hint))
    => LET fs == SelectSeq(segs, LAMBDA g : g.kind = "fence") IN
       code_blocks = [n \in 1..Len(fs) |->
                         [path |-> HintPath(fs[n].hint), code |-> BodyContent(fs[n])]]

\* C9: a fence is in the result only if its hint contains a path separator
\* or a dot; a fence hinted by a bare language name yields no entry; a text
\* without any fence yields the empty map.
C9_OnlyPathHintedFencesIncluded ==
    pc = "extracted" =>
        /\ \A i \in FenceIdx(segs) : Included(i) => LooksLikePath(segs[i].hint)
        /\ \A i \in BareFences(segs) : ~Included(i)
        /\ (FenceIdx(segs) = {} => code_blocks = <<>>)

\* C10: a fence whose opening line carries no hint contributes no entry,
\* whatever its body is.
C10_HintlessFenceIgnored ==
    pc = "extracted" =>
        \A i \in FenceIdx(segs) : segs[i].hint = <<>> => ~Included(i)

\* the response has nothing but narrative text and closed fences that carry
\* a hint and one body line at least
PlainResponse(ss) ==
    \A i \in 1..Len(ss) :
        \/ ss[i].kind = "text"
        \/ ss[i].kind = "fence" /\ ss[i].hint # <<>> /\ ss[i].lines # <<>>

\* a path that names a directory
IsDirectory(path) ==
    \/ path \in { <<DOT>>, <<DOT, DOT>> }
    \/ path # <<>> /\ path[Len(path)] \in {SLASH, BSLASH}

\* C11: every key of the result is a non-empty path and never a directory
\* (never ".", "..", "./" or a path that ends in a separator).
C11_KeysAreFilePaths ==
    pc = "extracted" =>
        \A n \in 1..Len(code_blocks) :
            code_blocks[n].path # <<>> /\ ~IsDirectory(code_blocks[n].path)

\* C15: a fence hinted by a Windows backslash path, relative or with a drive
\* letter, with or without a language token before it, is accepted and the
\* key of its entry is the path exactly as the hint has it.
C15_BackslashPathKeptAsWritten ==
    (pc = "extracted" /\ PlainResponse(segs)) =>
        \A i \in FenceIdx(segs) :
            segs[i].hint \in WindowsHints =>
                /\ Included(i)
                /\ \E k \in 1..Len(matches) :
                       /\ matches[k].start = FenceStart(segs, i)
                       /\ Strip(matches[k].path) = HintPath(segs[i].hint)
                /\ HintPath(segs[i].hint) \in Keys(code_blocks)

\* C16: an opening fence with a path hint and no closing fence of its own
\* contributes no entry, also when other fences follow it in the text.
C16_UnterminatedFenceIgnored ==
    (/\ pc = "extracted"
     /\ \A i \in 1..Len(segs) : segs[i].kind = "open" \/ PlainResponse(<<segs[i]>>))
    => \A i \in 1..Len(segs) :
           segs[i].kind = "open" => ~Included(i)

(***************************************************************************)
(* _prepare_request(prompt, files)                                         *)
(***************************************************************************)
ContextFiles == {"a.p", "b.p", "c.p"}

\* what read_file returns for a readable file
FileText == [f \in ContextFiles |-> <<"t", "x", "t", ":", f>>]

\* the lists of context files given on the command line
FileLists == UNION { [1..n -> ContextFiles] : n \in 0..MaxContext }

\* what the read of file f ends with: its text, or an exception
ReadResult(f) ==
    IF f \in unreadable
    THEN [ok |-> FALSE, value |-> <<"FileServiceError">>]
    ELSE [ok |-> TRUE, value |-> FileText[f]]

\* what get_repository_context ends with
RepositoryOutcomes == {"repo", "no_repo", "GitError"}

\* the loop of lines 148-152 from index i on
RECURSIVE CollectContents(_, _, _)
CollectContents(rs, i, d) ==
    IF i > Len(rs) THEN d
    ELSE CollectContents(rs, i + 1,
                         IF rs[i].ok THEN DictSet(d, files[i], rs[i].value)
                         ELSE d)

RECURSIVE CollectWarnings(_, _)
CollectWarnings(rs, i) ==
    IF i > Len(rs) THEN <<>>
    ELSE (IF rs[i].ok THEN <<>> ELSE <<files[i]>>)
             \o CollectWarnings(rs, i + 1)

InitPrepare ==
    /\ files \in FileLists
    /\ unreadable \in SUBSET ContextFiles
    /\ done = <<>>
    /\ results = <<>>
    /\ file_contents = <<>>
    /\ warnings = <<>>
    /\ git_context_str = ""
    /\ pstatus = "reading"
    /\ segs = <<>>
    /\ content = <<>>
    /\ matches = <<>>
    /\ code_blocks = <<>>
    /\ pc = "idle"
    /\ PipelineIdle
    /\ HandlerIdle

\* lines 145-146: one of the concurrent reads completes
ReadComplete(i) ==
    /\ pstatus = "reading"
    /\ i \in 1..Len(files)
    /\ \A k \in 1..Len(done) : done[k] # i
    /\ done' = Append(done, i)
    /\ UNCHANGED <<files, unreadable, results, file_contents, warnings,
                   git_context_str, pstatus>>
    /\ UNCHANGED <<extractVars, pc, pipeVars, handlerVars>>

\* gather handing the results over in the order the reads completed
GatherInCompletionOrder ==
    /\ pstatus = "reading"
    /\ Len(done) = Len(files)
    /\ LET rs == [k \in 1..Len(files) |-> ReadResult(files[done[k]])] IN
          /\ results' = rs
          /\ file_contents' = CollectContents(rs, 1, <<>>)
          /\ warnings' = CollectWarnings(rs, 1)
    /\ pstatus' = "git"
    /\ UNCHANGED <<files, unreadable, done, git_context_str>>
    /\ UNCHANGED <<extractVars, pc, pipeVars, handlerVars>>

\* lines 146-152: all reads are over; gather returns one result per file,
\* in the order of the list, and the loop sorts them into contents and
\* warnings
Gather ==
    /\ pstatus = "reading"
    /\ Len(done) = Len(files)
    /\ LET rs == [i \in 1..Len(files) |-> ReadResult(files[i])] IN
          /\ results' = rs
          /\ file_contents' = CollectContents(rs, 1, <<>>)
          /\ warnings' = CollectWarnings(rs, 1)
    /\ pstatus' = "git"
    /\ UNCHANGED <<files, unreadable, done, git_context_str>>
    /\ UNCHANGED <<extractVars, pc, pipeVars, handlerVars>>

\* lines 155-169: the Git context, then the request is returned
RepositoryContext(outcome) ==
    /\ pstatus = "git"
    /\ IF outcome = "GitError"
       THEN /\ pstatus' = "raised"
            /\ UNCHANGED git_context_str
       ELSE /\ pstatus' = "prepared"
            /\ git_context_str' = IF outcome = "repo"
                                  THEN "branch_and_status" ELSE ""
    /\ UNCHANGED <<files, unreadable, done, results, file_contents, warnings>>
    /\ UNCHANGED <<extractVars, pc, pipeVars, handlerVars>>

NextPrepare ==
    \/ \E i \in 1..MaxContext : ReadComplete(i)
    \/ Gather
    \/ \E outcome \in RepositoryOutcomes : RepositoryContext(outcome)

SpecPrepare == InitPrepare /\ [][NextPrepare]_vars

(***************************************************************************)
(* Claims about _prepare_request                                           *)
(***************************************************************************)
ReadOk == {i \in 1..Len(files) : files[i] \notin unreadable}
ReadFailed == {i \in 1..Len(files) : files[i] \in unreadable}
ContextKeys == {file_contents[n].path : n \in 1..Len(file_contents)}

\* C13: whatever the list of context files, the files whose read fails and
\* the order the reads complete in, the file context of the request holds
\* exactly the files that were read, each with its own text; every failed
\* file has its warning and is left out; and preparation does not stop
\* while reading.
C13_FailedReadsAreDropped ==
    /\ [](pstatus \in {"git", "prepared", "raised"} =>
            /\ ContextKeys = {files[i] : i \in ReadOk}
            /\ Cardinality(ContextKeys) = Len(file_contents)
            /\ \A n \in 1..Len(file_contents) :
                   file_contents[n].code = FileText[file_contents[n].path]
            /\ Len(warnings) = Cardinality(ReadFailed)
            /\ \A i \in ReadFailed :
                   /\ \E k \in 1..Len(warnings) : warnings[k] = files[i]
                   /\ files[i] \notin ContextKeys)
    /\ [][pstatus = "reading" => pstatus' \in {"reading", "git"}]_vars

\* three files, the second unreadable, the reads completing last first:
\* the request was prepared with the other two
C13_Witness ==
    /\ pstatus = "prepared"
    /\ files = <<"a.p", "b.p", "c.p">>
    /\ unreadable = {"b.p"}
    /\ done = <<3, 2, 1>>
    /\ warnings = <<"b.p">>
    /\ ContextKeys = {"a.p", "c.p"}

====
